---- MODULE Spec2Model ----
(***************************************************************************)
(* A state-machine model of pyudev.core: the Context and Enumerator        *)
(* wrappers around the native device registry, their filter methods, the   *)
(* generator behind Enumerator.__iter__ and the lifetime of the native     *)
(* handles the two classes own.                                            *)
(***************************************************************************)
EXTENDS Integers, Sequences, FiniteSets, TLC

(* ------------------------------------------------------------------ *)
(* Bounds of the model                                                 *)
(* ------------------------------------------------------------------ *)
\* Context objects the caller may create
MaxCtx == 2
\* Enumerator objects the caller may create (failed constructions included)
MaxEnum == 2
\* generator objects the caller may request by iter(enumerator)
MaxIter == 1
\* filter-adding calls per Enumerator under Spec
MaxFilters == 1
\* plug / unplug events of the registry under Spec
MaxRegChanges == 1
\* generators of the one Enumerator under SpecIter
MaxGenerators == 2
\* plug / unplug events of the registry under SpecIter
MaxEvents == 2
\* devices a generator walking freed entries may still hand out
MaxYielded == 3
\* filter-adding calls on the Enumerator under SpecFilter
MaxPreds == 3

CtxIds == 1..MaxCtx
EnumIds == 1..MaxEnum
IterIds == 1..MaxIter

(* ------------------------------------------------------------------ *)
(* The device registry the native layer reads                          *)
(* ------------------------------------------------------------------ *)
\* devices the registry may hold, named by their rank in sys path order
DeviceIds == {1, 2, 3}

SysPath(d) ==
    CASE d = 1 -> "/sys/block/sda"
      [] d = 2 -> "/sys/block/sda/sda1"
      [] OTHER -> "/sys/bus/usb/1-1"

Subsystem(d) == IF d = 3 THEN "usb" ELSE "block"

SysName(d) ==
    CASE d = 1 -> "sda"
      [] d = 2 -> "sda1"
      [] OTHER -> "1-1"

\* the value of a udev property of a device, "" when the device lacks it
Property(d, key) ==
    CASE d = 1 /\ key = "ID_TYPE" -> "disk"
      [] d = 1 /\ key = "DEVTYPE" -> "disk"
      [] d = 2 /\ key = "DEVTYPE" -> "partition"
      [] d = 3 /\ key = "ID_TYPE" -> "disk"
      [] d = 3 /\ key = "DEVTYPE" -> "usb_device"
      [] d = 3 /\ key = "ID_BUS" -> "None"
      [] OTHER -> ""

\* the value of a sysfs attribute of a device, "" when the device lacks it
Attribute(d, key) ==
    CASE d = 1 /\ key = "removable" -> "0"
      [] d = 3 /\ key = "removable" -> "1"
      [] OTHER -> ""

Tags(d) == IF d = 2 THEN {} ELSE {"systemd"}

IsInitialized(d) == d # 3

\* sys paths of the device itself and of its ancestors
SubtreeOf(d) ==
    IF d = 2 THEN {SysPath(1), SysPath(2)} ELSE {SysPath(d)}

(* ------------------------------------------------------------------ *)
(* Python values handed to the filter methods                          *)
(* ------------------------------------------------------------------ *)
U(s) == [type |-> "unicode", v |-> s]
B(s) == [type |-> "bytes", v |-> s]
PyInt(s) == [type |-> "int", v |-> s]
PyBool(s) == [type |-> "bool", v |-> s]
PyDevice(d) == [type |-> "device", v |-> SysPath(d)]
None == [type |-> "none", v |-> "None"]

\* pyudev._util.ensure_byte_string: text is encoded, bytes pass through
ensure_byte_string(value) == value.v

\* pyudev._util.property_value_to_bytes: booleans become the registry's
\* truth tokens, numbers their decimal text, bytes pass through, anything
\* else its text form
property_value_to_bytes(value) ==
    CASE value.type = "bool" -> (IF value.v = "True" THEN "1" ELSE "0")
      [] value.type = "bytes" -> value.v
      [] OTHER -> ensure_byte_string(U(value.v))

VARIABLES
    registry,     \* devices the native registry currently knows
    regChanges,   \* plug / unplug events so far
    ctx,          \* Context objects
    enum,         \* Enumerator objects and their native enumeration objects
    iter,         \* generator objects made by Enumerator.__iter__
    last          \* the latest event and what it returned or raised

vars == <<registry, regChanges, ctx, enum, iter, last>>

(* ------------------------------------------------------------------ *)
(* Objects                                                             *)
(* ------------------------------------------------------------------ *)
\* a value that is not a Context, handed to Enumerator(...)
NotAContext == 0

\* what a call hands back: an object, or an exception
Obj(kind, id) == [kind |-> kind, id |-> id, exc |-> ""]
Raise(exc) == [kind |-> "raise", id |-> 0, exc |-> exc]
Call(op, self, ret) == [op |-> op, self |-> self, ret |-> ret]
\* an event that hands the caller nothing: a dropped reference, a finaliser
\* (an exception raised inside __del__ is ignored), a registry change
Quiet == Call("", 0, Obj("none", 0))

\* pyudev._libudev: a native call that fails raises an error
libudev_error == Raise("EnvironmentError")

\* a Context slot: handle is TRUE once _as_parameter_ is set; acquired and
\* released count udev_new and udev_unref on that native handle
NoContext ==
    [state |-> "unborn", ref |-> FALSE, handle |-> FALSE,
     acquired |-> 0, released |-> 0]

\* an Enumerator slot with its native enumeration object: udev is the
\* registry connection the native object was made from, filters its match
\* list, list its current result list, scans / heads the scan and list-head
\* calls made on it; calls is the history of match_* calls on the object
NoEnumerator ==
    [state |-> "unborn", ref |-> FALSE, context |-> 0, handle |-> FALSE,
     udev |-> 0, acquired |-> 0, released |-> 0, filters |-> <<>>,
     calls |-> <<>>, scans |-> 0, heads |-> 0, list |-> <<>>]

\* a generator slot: scan is the scan whose list its entry belongs to, pos
\* the entry's place in that list, freed whether it has followed an entry of
\* a list that was replaced; reqReg, scanReg and scanCalls record the
\* registry when the generator was requested and the registry and the
\* Enumerator's call history when its scan ran, entries the result list the
\* generator got; requested counts the next() calls the generator answered,
\* resolved the calls it made to the device resolver
NoIterator ==
    [state |-> "unborn", enum |-> 0, scan |-> 0, pos |-> 0, yielded |-> <<>>,
     end |-> "", freed |-> FALSE, reqReg |-> {}, scanReg |-> {},
     scanCalls |-> <<>>, entries |-> <<>>, requested |-> 0, resolved |-> 0]

FreshCtx(c) ==
    /\ ctx[c].state = "unborn"
    /\ \A k \in DOMAIN ctx : k < c => ctx[k].state # "unborn"

FreshEnum(e) ==
    /\ enum[e].state = "unborn"
    /\ \A k \in DOMAIN enum : k < e => enum[k].state # "unborn"

FreshIter(i) ==
    /\ iter[i].state = "unborn"
    /\ \A k \in DOMAIN iter : k < i => iter[k].state # "unborn"

\* mutant: a generator holds no reference to the Enumerator it walks
HoldsEnumerator_never(i, e) ==
    iter[i].state = "discarded" /\ iter[i].enum = e

\* a generator that has not finished keeps its frame, and the frame keeps self
HoldsEnumerator(i, e) ==
    iter[i].state \in {"created", "suspended"} /\ iter[i].enum = e

EnumReachable(e) ==
    enum[e].ref \/ \E i \in DOMAIN iter : HoldsEnumerator(i, e)

\* self.context of an Enumerator that is not yet finalised keeps the Context
HoldsContext(e, c) ==
    enum[e].state = "alive" /\ enum[e].context = c

CtxReachable(c) ==
    ctx[c].ref \/ \E e \in DOMAIN enum : HoldsContext(e, c)

(* ------------------------------------------------------------------ *)
(* The registry changes under the program                              *)
(* ------------------------------------------------------------------ *)
Plug(d) ==
    /\ d \notin registry
    /\ registry' = registry \cup {d}
    /\ regChanges' = regChanges + 1
    /\ last' = Quiet
    /\ UNCHANGED <<ctx, enum, iter>>

Unplug(d) ==
    /\ d \in registry
    /\ registry' = registry \ {d}
    /\ regChanges' = regChanges + 1
    /\ last' = Quiet
    /\ UNCHANGED <<ctx, enum, iter>>

(* ------------------------------------------------------------------ *)
(* Context                                                             *)
(* ------------------------------------------------------------------ *)
\* Context(): self._as_parameter_ = libudev.udev_new()
Context__init__(c) ==
    /\ FreshCtx(c)
    /\ ctx' = [ctx EXCEPT ![c] = [state |-> "alive", ref |-> TRUE,
                                  handle |-> TRUE, acquired |-> 1,
                                  released |-> 0]]
    /\ last' = Call("Context", c, Obj("Context", c))
    /\ UNCHANGED <<registry, regChanges, enum, iter>>

\* mutant: a failed acquisition leaves a Context without a native handle
ContextInitFailed_null ==
    [NoContext EXCEPT !.state = "alive", !.ref = TRUE]

\* Context.__init__ left by an error of libudev.udev_new(): the assignment
\* of _as_parameter_ is not reached, and the caller gets no reference
ContextInitFailed ==
    [NoContext EXCEPT !.state = "failed"]

\* Context() when the native registry reference cannot be acquired
Context__init__raising(c) ==
    /\ FreshCtx(c)
    /\ ctx' = [ctx EXCEPT ![c] = ContextInitFailed]
    /\ last' = Call("Context", c, libudev_error)
    /\ UNCHANGED <<registry, regChanges, enum, iter>>

\* the read-only properties of a Context: each hands self to one native call
sys_path(c) ==
    /\ ctx[c].state = "alive" /\ ctx[c].ref
    /\ last' = Call("sys_path", c, Obj("unicode", 0))
    /\ UNCHANGED <<registry, regChanges, ctx, enum, iter>>

device_path(c) ==
    /\ ctx[c].state = "alive" /\ ctx[c].ref
    /\ last' = Call("device_path", c, Obj("unicode", 0))
    /\ UNCHANGED <<registry, regChanges, ctx, enum, iter>>

run_path(c) ==
    /\ ctx[c].state = "alive" /\ ctx[c].ref
    /\ last' = Call("run_path", c, Obj("unicode", 0))
    /\ UNCHANGED <<registry, regChanges, ctx, enum, iter>>

log_priority(c) ==
    /\ ctx[c].state = "alive" /\ ctx[c].ref
    /\ last' = Call("log_priority", c, Obj("int", 0))
    /\ UNCHANGED <<registry, regChanges, ctx, enum, iter>>

\* the caller lets go of its reference to a Context
DropContext(c) ==
    /\ ctx[c].state = "alive"
    /\ ctx[c].ref
    /\ ctx' = [ctx EXCEPT ![c].ref = FALSE]
    /\ last' = Quiet
    /\ UNCHANGED <<registry, regChanges, enum, iter>>

\* mutant: the finaliser of a Context forgets the native reference
Context__del__leaking(c) ==
    /\ ctx[c].state \in {"alive", "failed"}
    /\ ~CtxReachable(c)
    /\ ctx' = [ctx EXCEPT ![c].state = "deleted"]
    /\ last' = Quiet
    /\ UNCHANGED <<registry, regChanges, enum, iter>>

\* Context.__del__, run once the object is unreachable:
\* libudev.udev_unref(self); an object whose __init__ raised has no
\* _as_parameter_, the foreign call refuses it and nothing is released
Context__del__(c) ==
    /\ ctx[c].state \in {"alive", "failed"}
    /\ ~CtxReachable(c)
    /\ ctx' = [ctx EXCEPT ![c].state = "deleted",
                          ![c].released = IF ctx[c].handle THEN @ + 1 ELSE @]
    /\ last' = Quiet
    /\ UNCHANGED <<registry, regChanges, enum, iter>>

(* ------------------------------------------------------------------ *)
(* Enumerator: construction, teardown and the filter methods           *)
(* ------------------------------------------------------------------ *)
Pred(kind, key, value) == [kind |-> kind, key |-> key, value |-> value]

\* the history of filter methods called on an Enumerator
Called(en, op, args) ==
    [en EXCEPT !.calls = Append(@, [op |-> op, args |-> args])]

\* libudev.udev_enumerate_add_match_*: the native object appends the match
add_match(en, kind, key, value) ==
    [en EXCEPT !.filters = Append(@, Pred(kind, key, value))]

\* mutant: the constructor already scans the registry
EnumeratorInit_scanning(c) ==
    [NoEnumerator EXCEPT !.state = "alive", !.ref = TRUE, !.context = c,
                         !.handle = TRUE, !.udev = c, !.acquired = 1,
                         !.scans = 1, !.heads = 1]

\* mutant: the constructor does not keep the Context it was given
EnumeratorInit_unbound(c) ==
    [NoEnumerator EXCEPT !.state = "alive", !.ref = TRUE, !.handle = TRUE,
                         !.udev = c, !.acquired = 1]

\* the body of Enumerator.__init__ past the type check
EnumeratorInit(c) ==
    [NoEnumerator EXCEPT !.state = "alive", !.ref = TRUE, !.context = c,
                         !.handle = TRUE, !.udev = c, !.acquired = 1]

\* Enumerator.__init__ left by raise TypeError: nothing was assigned, and
\* the caller gets no reference to the object
EnumeratorInitFailed ==
    [NoEnumerator EXCEPT !.state = "failed"]

do_match_subsystem(en, subsystem) ==
    add_match(Called(en, "match_subsystem", <<subsystem>>),
              "subsystem", "", ensure_byte_string(subsystem))

do_match_sys_name(en, sys_name) ==
    add_match(Called(en, "match_sys_name", <<sys_name>>),
              "sys_name", "", ensure_byte_string(sys_name))

do_match_property(en, property, value) ==
    add_match(Called(en, "match_property", <<property, value>>),
              "property", ensure_byte_string(property),
              property_value_to_bytes(value))

\* mutant: the attribute filter calls the native property filter
do_match_attribute_as_property(en, attribute, value) ==
    add_match(Called(en, "match_attribute", <<attribute, value>>),
              "property", ensure_byte_string(attribute),
              property_value_to_bytes(value))

do_match_attribute(en, attribute, value) ==
    add_match(Called(en, "match_attribute", <<attribute, value>>),
              "attribute", ensure_byte_string(attribute),
              property_value_to_bytes(value))

do_match_tag(en, tag) ==
    add_match(Called(en, "match_tag", <<tag>>),
              "tag", "", ensure_byte_string(tag))

do_match_is_initialized(en) ==
    add_match(Called(en, "match_is_initialized", <<>>),
              "is_initialized", "", "")

\* mutant: a new parent filter takes the place of the ones added before
do_match_parent_replacing(en, parent) ==
    add_match([Called(en, "match_parent", <<parent>>) EXCEPT
                   !.filters = SelectSeq(@, LAMBDA p : p.kind # "parent")],
              "parent", "", parent.v)

do_match_parent(en, parent) ==
    add_match(Called(en, "match_parent", <<parent>>),
              "parent", "", parent.v)

\* the keywords Enumerator.match pops before it walks the rest
Recognized == {"subsystem", "sys_name", "tag", "parent"}

\* keyword arguments are a set of <<keyword, value>> pairs, one per keyword
Keys(kwargs) == {item[1] : item \in kwargs}
Get(kwargs, key) == (CHOOSE item \in kwargs : item[1] = key)[2]

\* kwargs.pop(key, None)
Pop(kwargs, key) == IF key \in Keys(kwargs) THEN Get(kwargs, key) ELSE None

\* for property, value in kwargs.iteritems(): self.match_property(...),
\* order being the order the dictionary hands the remaining items out
RECURSIVE match_properties(_, _, _)
match_properties(en, kwargs, order) ==
    IF order = <<>>
    THEN en
    ELSE match_properties(
             do_match_property(en, B(Head(order)), Get(kwargs, Head(order))),
             kwargs, Tail(order))

\* mutant: a subsystem keyword is forwarded whether it was given or not
do_match_forwarding_none(en, kwargs, order) ==
    LET subsystem == Pop(kwargs, "subsystem")
        s1 == do_match_subsystem(en, subsystem)
        sys_name == Pop(kwargs, "sys_name")
        s2 == IF sys_name # None THEN do_match_sys_name(s1, sys_name) ELSE s1
        tag == Pop(kwargs, "tag")
        s3 == IF tag # None THEN do_match_tag(s2, tag) ELSE s2
        parent == Pop(kwargs, "parent")
        s4 == IF parent # None THEN do_match_parent(s3, parent) ELSE s3
    IN  match_properties(s4, kwargs, order)

\* mutant: the tag keyword is handled before the sys_name keyword
do_match_tag_first(en, kwargs, order) ==
    LET subsystem == Pop(kwargs, "subsystem")
        s1 == IF subsystem # None THEN do_match_subsystem(en, subsystem) ELSE en
        tag == Pop(kwargs, "tag")
        s2 == IF tag # None THEN do_match_tag(s1, tag) ELSE s1
        sys_name == Pop(kwargs, "sys_name")
        s3 == IF sys_name # None THEN do_match_sys_name(s2, sys_name) ELSE s2
        parent == Pop(kwargs, "parent")
        s4 == IF parent # None THEN do_match_parent(s3, parent) ELSE s3
    IN  match_properties(s4, kwargs, order)

\* the body of Enumerator.match
do_match(en, kwargs, order) ==
    LET subsystem == Pop(kwargs, "subsystem")
        s1 == IF subsystem # None THEN do_match_subsystem(en, subsystem) ELSE en
        sys_name == Pop(kwargs, "sys_name")
        s2 == IF sys_name # None THEN do_match_sys_name(s1, sys_name) ELSE s1
        tag == Pop(kwargs, "tag")
        s3 == IF tag # None THEN do_match_tag(s2, tag) ELSE s2
        parent == Pop(kwargs, "parent")
        s4 == IF parent # None THEN do_match_parent(s3, parent) ELSE s3
    IN  match_properties(s4, kwargs, order)

\* the orders in which a dictionary may hand out the keys in keys
Orders(keys) ==
    {o \in UNION {[1..n -> keys] : n \in {Cardinality(keys)}} :
        \A a, b \in DOMAIN o : a # b => o[a] # o[b]}

\* the caller can call a method of an Enumerator it holds
Callable(e) == enum[e].state = "alive" /\ enum[e].ref

\* Enumerator(context)
Enumerator__init__(e, context) ==
    /\ FreshEnum(e)
    /\ \/ /\ context = NotAContext
          /\ enum' = [enum EXCEPT ![e] = EnumeratorInitFailed]
          /\ last' = Call("Enumerator", e, Raise("TypeError"))
       \/ /\ context \in DOMAIN ctx
          /\ ctx[context].state = "alive" /\ ctx[context].ref
          /\ enum' = [enum EXCEPT ![e] = EnumeratorInit(context)]
          /\ last' = Call("Enumerator", e, Obj("Enumerator", e))
    /\ UNCHANGED <<registry, regChanges, ctx, iter>>

\* the caller lets go of its reference to an Enumerator
DropEnumerator(e) ==
    /\ Callable(e)
    /\ enum' = [enum EXCEPT ![e].ref = FALSE]
    /\ last' = Quiet
    /\ UNCHANGED <<registry, regChanges, ctx, iter>>

\* mutant: the finaliser of an Enumerator also releases the registry
\* reference of its Context
Enumerator__del__unref_context(e) ==
    /\ enum[e].state \in {"alive", "failed"}
    /\ ~EnumReachable(e)
    /\ enum' = [enum EXCEPT ![e].state = "deleted",
                            ![e].released = IF enum[e].handle THEN @ + 1 ELSE @]
    /\ ctx' = IF enum[e].handle
              THEN [ctx EXCEPT ![enum[e].udev].released = @ + 1]
              ELSE ctx
    /\ last' = Quiet
    /\ UNCHANGED <<registry, regChanges, iter>>

\* mutant: the finaliser releases a native object whether or not the
\* constructor acquired one
Enumerator__del__releasing_always(e) ==
    /\ enum[e].state \in {"alive", "failed"}
    /\ ~EnumReachable(e)
    /\ enum' = [enum EXCEPT ![e].state = "deleted", ![e].released = @ + 1]
    /\ last' = Quiet
    /\ UNCHANGED <<registry, regChanges, ctx, iter>>

\* Enumerator.__del__, run once the object is unreachable:
\* libudev.udev_enumerate_unref(self); an object whose __init__ raised has no
\* _as_parameter_, the foreign call refuses it and nothing is released
Enumerator__del__(e) ==
    /\ enum[e].state \in {"alive", "failed"}
    /\ ~EnumReachable(e)
    /\ enum' = [enum EXCEPT ![e].state = "deleted",
                            ![e].released = IF enum[e].handle THEN @ + 1 ELSE @]
    /\ last' = Quiet
    /\ UNCHANGED <<registry, regChanges, ctx, iter>>

\* Context.list_devices(**kwargs): Enumerator(self).match(**kwargs)
list_devices(c, e, kwargs, order) ==
    /\ ctx[c].state = "alive" /\ ctx[c].ref
    /\ FreshEnum(e)
    /\ order \in Orders(Keys(kwargs) \ Recognized)
    /\ enum' = [enum EXCEPT ![e] = do_match(EnumeratorInit(c), kwargs, order)]
    /\ last' = Call("list_devices", c, Obj("Enumerator", e))
    /\ UNCHANGED <<registry, regChanges, ctx, iter>>

match(e, kwargs, order) ==
    /\ Callable(e)
    /\ order \in Orders(Keys(kwargs) \ Recognized)
    /\ enum' = [enum EXCEPT ![e] = do_match(@, kwargs, order)]
    /\ last' = Call("match", e, Obj("Enumerator", e))
    /\ UNCHANGED <<registry, regChanges, ctx, iter>>

\* mutant: the subsystem filter lands in every Enumerator of the Context
match_subsystem_shared(e, subsystem) ==
    /\ Callable(e)
    /\ enum' = [o \in DOMAIN enum |->
                   IF enum[o].state = "alive" /\ enum[o].udev = enum[e].udev
                   THEN do_match_subsystem(enum[o], subsystem)
                   ELSE enum[o]]
    /\ last' = Call("match_subsystem", e, Obj("Enumerator", e))
    /\ UNCHANGED <<registry, regChanges, ctx, iter>>

match_subsystem(e, subsystem) ==
    /\ Callable(e)
    /\ enum' = [enum EXCEPT ![e] = do_match_subsystem(@, subsystem)]
    /\ last' = Call("match_subsystem", e, Obj("Enumerator", e))
    /\ UNCHANGED <<registry, regChanges, ctx, iter>>

match_sys_name(e, sys_name) ==
    /\ Callable(e)
    /\ enum' = [enum EXCEPT ![e] = do_match_sys_name(@, sys_name)]
    /\ last' = Call("match_sys_name", e, Obj("Enumerator", e))
    /\ UNCHANGED <<registry, regChanges, ctx, iter>>

match_property(e, property, value) ==
    /\ Callable(e)
    /\ enum' = [enum EXCEPT ![e] = do_match_property(@, property, value)]
    /\ last' = Call("match_property", e, Obj("Enumerator", e))
    /\ UNCHANGED <<registry, regChanges, ctx, iter>>

match_attribute(e, attribute, value) ==
    /\ Callable(e)
    /\ enum' = [enum EXCEPT ![e] = do_match_attribute(@, attribute, value)]
    /\ last' = Call("match_attribute", e, Obj("Enumerator", e))
    /\ UNCHANGED <<registry, regChanges, ctx, iter>>

match_tag(e, tag) ==
    /\ Callable(e)
    /\ enum' = [enum EXCEPT ![e] = do_match_tag(@, tag)]
    /\ last' = Call("match_tag", e, Obj("Enumerator", e))
    /\ UNCHANGED <<registry, regChanges, ctx, iter>>

match_is_initialized(e) ==
    /\ Callable(e)
    /\ enum' = [enum EXCEPT ![e] = do_match_is_initialized(@)]
    /\ last' = Call("match_is_initialized", e, Obj("Enumerator", e))
    /\ UNCHANGED <<registry, regChanges, ctx, iter>>

match_parent(e, parent) ==
    /\ Callable(e)
    /\ enum' = [enum EXCEPT ![e] = do_match_parent(@, parent)]
    /\ last' = Call("match_parent", e, Obj("Enumerator", e))
    /\ UNCHANGED <<registry, regChanges, ctx, iter>>

(* ------------------------------------------------------------------ *)
(* The native scan, as the Enumerator class documents it               *)
(* ------------------------------------------------------------------ *)
MatchesPred(d, p) ==
    CASE p.kind = "subsystem" -> Subsystem(d) = p.value
      [] p.kind = "sys_name" -> SysName(d) = p.value
      [] p.kind = "property" -> Property(d, p.key) = p.value
      [] p.kind = "attribute" -> Attribute(d, p.key) = p.value
      [] p.kind = "tag" -> p.value \in Tags(d)
      [] p.kind = "is_initialized" -> IsInitialized(d)
      [] OTHER -> p.value \in SubtreeOf(d)

Kinds ==
    {"subsystem", "sys_name", "property", "attribute", "tag",
     "is_initialized", "parent"}

\* filters of one type are combined with OR, filters of different types
\* with AND
Matches(d, filters) ==
    \A k \in Kinds :
        LET own == {n \in DOMAIN filters : filters[n].kind = k}
        IN  own = {} \/ \E n \in own : MatchesPred(d, filters[n])

\* the devices of a set in the order of the native list
RECURSIVE ListOf(_)
ListOf(S) ==
    IF S = {}
    THEN <<>>
    ELSE LET first == CHOOSE d \in S : \A o \in S : d <= o
         IN  <<first>> \o ListOf(S \ {first})

\* mutant: a scan adds what it finds to the list of the scan before
scan_devices_appending(en, reg) ==
    [en EXCEPT !.scans = @ + 1,
               !.list = @ \o ListOf({d \in reg : Matches(d, en.filters)})]

\* mutant: only the first iteration scans, later ones walk the same list
scan_devices_once(en, reg) ==
    IF en.scans > 0
    THEN [en EXCEPT !.scans = @ + 1]
    ELSE [en EXCEPT !.scans = @ + 1,
                    !.list = ListOf({d \in reg : Matches(d, en.filters)})]

\* libudev.udev_enumerate_scan_devices(self): the native object replaces
\* its result list by the devices the registry holds now that match
scan_devices(en, reg) ==
    [en EXCEPT !.scans = @ + 1,
               !.list = ListOf({d \in reg : Matches(d, en.filters)})]

\* libudev.udev_enumerate_get_list_entry(self)
get_list_entry(en) == [en EXCEPT !.heads = @ + 1]

(* ------------------------------------------------------------------ *)
(* Enumerator.__iter__: a generator                                    *)
(* ------------------------------------------------------------------ *)
\* pyudev.device.Device.from_sys_path: the resolver builds a device for a
\* sys path the registry holds, and fails for one it no longer holds
from_sys_path(reg, name) == name \in reg

\* mutant: an entry the resolver fails for is passed over in silence
Deliver_skipping(it, reg, name) ==
    IF from_sys_path(reg, name)
    THEN [it EXCEPT !.state = "suspended", !.yielded = Append(@, name),
                    !.resolved = @ + 1]
    ELSE [it EXCEPT !.state = "suspended", !.resolved = @ + 1]

\* yield Device.from_sys_path(self.context, name): an error of the resolver
\* is not caught, it leaves the generator and ends it
Deliver(it, reg, name) ==
    IF from_sys_path(reg, name)
    THEN [it EXCEPT !.state = "suspended", !.yielded = Append(@, name),
                    !.resolved = @ + 1]
    ELSE [it EXCEPT !.state = "finished", !.end = "raised",
                    !.resolved = @ + 1]

\* mutant: the walk passes over the second entry of a list
Advance_skipping(it, reg, list, pos) ==
    LET at == IF pos = 2 THEN 3 ELSE pos
    IN  IF at > Len(list)
        THEN [it EXCEPT !.state = "finished", !.end = "exhausted"]
        ELSE Deliver([it EXCEPT !.pos = at], reg, list[at])

\* udev_list_iterate: the entry at pos of list, or the end of the list
Advance(it, reg, list, pos) ==
    IF pos > Len(list)
    THEN [it EXCEPT !.state = "finished", !.end = "exhausted"]
    ELSE Deliver([it EXCEPT !.pos = pos], reg, list[pos])

\* what next(generator) hands to the caller
Outcome(it) ==
    CASE it.state = "suspended" -> Obj("Device", it.yielded[Len(it.yielded)])
      [] it.end = "exhausted" -> Raise("StopIteration")
      [] OTHER -> Raise("DeviceNotFound")

\* iter(enumerator): calling the generator function runs none of its body
Enumerator__iter__(e, i) ==
    /\ Callable(e)
    /\ FreshIter(i)
    /\ iter' = [iter EXCEPT ![i] = [NoIterator EXCEPT !.state = "created",
                                                       !.enum = e,
                                                       !.reqReg = registry]]
    /\ last' = Call("iter", e, Obj("generator", i))
    /\ UNCHANGED <<registry, regChanges, ctx, enum>>

\* mutant: the first next() resolves every entry of the list before it
\* yields the first device
IterStart_eager(i) ==
    /\ iter[i].state = "created"
    /\ LET e == iter[i].enum
           en == get_list_entry(scan_devices(enum[e], registry))
           it == [iter[i] EXCEPT !.scan = en.scans, !.scanReg = registry,
                                 !.scanCalls = enum[e].calls,
                                 !.entries = en.list, !.requested = 1,
                                 !.resolved = Len(en.list) - 1]
           nx == Advance(it, registry, en.list, 1)
       IN  /\ enum' = [enum EXCEPT ![e] = en]
           /\ iter' = [iter EXCEPT ![i] = nx]
           /\ last' = Call("next", i, Outcome(nx))
    /\ UNCHANGED <<registry, regChanges, ctx>>

\* the first next(generator): the body runs from its top to the first yield
IterStart(i) ==
    /\ iter[i].state = "created"
    /\ LET e == iter[i].enum
           en == get_list_entry(scan_devices(enum[e], registry))
           it == [iter[i] EXCEPT !.scan = en.scans, !.scanReg = registry,
                                 !.scanCalls = enum[e].calls,
                                 !.entries = en.list, !.requested = 1]
           nx == Advance(it, registry, en.list, 1)
       IN  /\ enum' = [enum EXCEPT ![e] = en]
           /\ iter' = [iter EXCEPT ![i] = nx]
           /\ last' = Call("next", i, Outcome(nx))
    /\ UNCHANGED <<registry, regChanges, ctx>>

\* the native scan fails: what it leaves as the result list is some part of
\* what a complete scan finds, and the list from before is gone
scan_devices_failed(en, reg, n) ==
    [en EXCEPT !.scans = @ + 1,
               !.list = SubSeq(ListOf({d \in reg : Matches(d, en.filters)}),
                               1, n)]

\* mutant: the failure of the native call is dropped and the loop walks
\* whatever list the native object holds
IterStartFailed_walking(i, at, n) ==
    /\ iter[i].state = "created"
    /\ at \in {"scan", "list_entry"}
    /\ LET e == iter[i].enum
           en == get_list_entry(
                     IF at = "scan"
                     THEN scan_devices_failed(enum[e], registry, n)
                     ELSE scan_devices(enum[e], registry))
           it == [iter[i] EXCEPT !.scan = en.scans, !.scanReg = registry,
                                 !.scanCalls = enum[e].calls,
                                 !.entries = en.list, !.requested = 1]
           nx == Advance(it, registry, en.list, 1)
       IN  /\ n \in 0..Len(scan_devices(enum[e], registry).list)
           /\ enum' = [enum EXCEPT ![e] = en]
           /\ iter' = [iter EXCEPT ![i] = nx]
           /\ last' = Call("next", i, Outcome(nx))
    /\ UNCHANGED <<registry, regChanges, ctx>>

\* the first next(generator) when udev_enumerate_scan_devices (at = "scan")
\* or udev_enumerate_get_list_entry (at = "list_entry") fails: the error
\* leaves the generator before the loop is reached
IterStartFailed(i, at, n) ==
    /\ iter[i].state = "created"
    /\ at \in {"scan", "list_entry"}
    /\ LET e == iter[i].enum
           en == IF at = "scan"
                 THEN scan_devices_failed(enum[e], registry, n)
                 ELSE scan_devices(enum[e], registry)
       IN  /\ n \in 0..Len(scan_devices(enum[e], registry).list)
           /\ enum' = [enum EXCEPT ![e] = en]
           /\ iter' = [iter EXCEPT ![i] =
                           [@ EXCEPT !.state = "finished", !.end = "failed",
                                     !.scan = en.scans, !.scanReg = registry,
                                     !.scanCalls = enum[e].calls,
                                     !.requested = 1]]
           /\ last' = Call("next", i, libudev_error)
    /\ UNCHANGED <<registry, regChanges, ctx>>

\* the entry a suspended generator holds belongs to the current result list
Current(i) == iter[i].scan = enum[iter[i].enum].scans

\* a later next(generator): the loop goes on from the entry it holds. An
\* entry of a list that a later scan replaced is freed memory: following it
\* may end the walk, fail, or hand out any name
IterResume(i) ==
    /\ iter[i].state = "suspended"
    /\ \E nx \in
            IF Current(i)
            THEN {Advance([iter[i] EXCEPT !.requested = @ + 1], registry,
                          enum[iter[i].enum].list, iter[i].pos + 1)}
            ELSE LET it == [iter[i] EXCEPT !.freed = TRUE,
                                           !.requested = @ + 1]
                 IN  {[it EXCEPT !.state = "finished", !.end = "exhausted"],
                      [it EXCEPT !.state = "finished", !.end = "raised"]}
                     \cup {Deliver(it, registry, d) : d \in DeviceIds} :
          /\ iter' = [iter EXCEPT ![i] = nx]
          /\ last' = Call("next", i, Outcome(nx))
    /\ UNCHANGED <<registry, regChanges, ctx, enum>>

\* the caller discards a generator that has not finished: it is closed and
\* its frame, with the reference to self, is gone
IterClose(i) ==
    /\ iter[i].state \in {"created", "suspended"}
    /\ iter' = [iter EXCEPT ![i].state = "finished", ![i].end = "closed"]
    /\ last' = Quiet
    /\ UNCHANGED <<registry, regChanges, ctx, enum>>

(* ------------------------------------------------------------------ *)
(* Specifications                                                      *)
(* ------------------------------------------------------------------ *)
Start(contexts, enumerators, generators, devices) ==
    /\ registry = devices
    /\ regChanges = 0
    /\ ctx = [c \in contexts |-> NoContext]
    /\ enum = [e \in enumerators |-> NoEnumerator]
    /\ iter = [i \in generators |-> NoIterator]
    /\ last = Quiet

\* a generator is not followed beyond the bound on what it hands out
Bounded(i) ==
    /\ iter[i].state = "suspended"
    /\ Len(iter[i].yielded) < MaxYielded \/ Current(i)

\* the filter-adding call stays within a bound on calls per Enumerator
Room(e, n, most) == Len(enum[e].calls) + n <= most

\* the predicates match(**kwargs) adds
Adds(kwargs) ==
    Cardinality({item \in kwargs : item[1] \notin Recognized \/ item[2] # None})

\* Spec: the lifetimes of Contexts, Enumerators and generators
SomeKwargs == {{}, {<<"subsystem", B("block")>>}}

Init == Start(CtxIds, EnumIds, IterIds, {1, 2})

Next ==
    \/ regChanges < MaxRegChanges /\ Unplug(2)
    \/ \E c \in CtxIds : Context__init__(c)
    \/ \E c \in CtxIds : DropContext(c)
    \/ \E c \in CtxIds : Context__del__(c)
    \/ \E e \in EnumIds, c \in CtxIds \cup {NotAContext} : Enumerator__init__(e, c)
    \/ \E e \in EnumIds : DropEnumerator(e)
    \/ \E e \in EnumIds : Enumerator__del__(e)
    \/ \E c \in CtxIds, e \in EnumIds, kw \in SomeKwargs :
           Adds(kw) <= MaxFilters /\ list_devices(c, e, kw, <<>>)
    \/ \E e \in EnumIds, i \in IterIds : Enumerator__iter__(e, i)
    \/ \E i \in IterIds : IterStart(i)
    \/ \E i \in IterIds : Bounded(i) /\ IterResume(i)
    \/ \E i \in IterIds : IterClose(i)

Spec == Init /\ [][Next]_vars

\* SpecIter: the generators of one Enumerator over a changing registry
IterInit == Start({1}, {1}, 1..MaxGenerators, {1, 2})

IterNext ==
    \/ \E d \in DeviceIds : regChanges < MaxEvents /\ Plug(d)
    \/ \E d \in DeviceIds : regChanges < MaxEvents /\ Unplug(d)
    \/ Context__init__(1)
    \/ Enumerator__init__(1, 1)
    \/ \E s \in {U("block")} : Room(1, 1, MaxFilters) /\ match_subsystem(1, s)
    \/ \E i \in DOMAIN iter : Enumerator__iter__(1, i)
    \/ \E i \in DOMAIN iter : IterStart(i)
    \/ \E i \in DOMAIN iter : Bounded(i) /\ IterResume(i)
    \/ \E i \in DOMAIN iter : IterClose(i)

SpecIter == IterInit /\ [][IterNext]_vars

\* SpecFilter: the filter methods of one Enumerator, and what its iteration
\* yields from a registry holding every device
Subsystems == {U("block"), B("usb")}
SysNames == {U("sda")}
Properties == {<<U("ID_TYPE"), U("disk")>>, <<B("DEVTYPE"), B("disk")>>}
Attributes == {<<U("removable"), PyBool("True")>>, <<B("removable"), PyInt("0")>>}
TagNames == {U("systemd")}
Parents == {PyDevice(1)}
Kwargs ==
    {{},
     {<<"subsystem", None>>},
     {<<"subsystem", B("usb")>>, <<"tag", None>>},
     {<<"subsystem", U("block")>>, <<"ID_TYPE", U("disk")>>,
      <<"DEVTYPE", U("disk")>>},
     {<<"sys_name", U("sda1")>>, <<"tag", U("systemd")>>},
     {<<"parent", PyDevice(1)>>, <<"sys_name", None>>},
     {<<"parent", None>>, <<"ID_BUS", None>>}}

\* filter-adding calls made on the Enumerator
Total == Len(enum[1].calls)

FilterInit == Start({1}, {1}, {1}, DeviceIds)

FilterNext ==
    \/ Context__init__(1)
    \/ \E e \in DOMAIN enum : Enumerator__init__(e, 1)
    \/ \E e \in DOMAIN enum, kw \in Kwargs :
           \E order \in Orders(Keys(kw) \ Recognized) :
               Total + Adds(kw) <= MaxPreds /\ list_devices(1, e, kw, order)
    \/ \E e \in DOMAIN enum, kw \in Kwargs :
           \E order \in Orders(Keys(kw) \ Recognized) :
               Total + Adds(kw) <= MaxPreds /\ match(e, kw, order)
    \/ \E e \in DOMAIN enum, v \in Subsystems :
           Total < MaxPreds /\ match_subsystem(e, v)
    \/ \E e \in DOMAIN enum, v \in SysNames :
           Total < MaxPreds /\ match_sys_name(e, v)
    \/ \E e \in DOMAIN enum, v \in Properties :
           Total < MaxPreds /\ match_property(e, v[1], v[2])
    \/ \E e \in DOMAIN enum, v \in Attributes :
           Total < MaxPreds /\ match_attribute(e, v[1], v[2])
    \/ \E e \in DOMAIN enum, v \in TagNames :
           Total < MaxPreds /\ match_tag(e, v)
    \/ \E e \in DOMAIN enum : Total < MaxPreds /\ match_is_initialized(e)
    \/ \E e \in DOMAIN enum, v \in Parents :
           Total < MaxPreds /\ match_parent(e, v)
    \/ \E e \in DOMAIN enum, i \in DOMAIN iter : Enumerator__iter__(e, i)
    \/ \E i \in DOMAIN iter : IterStart(i)
    \/ \E i \in DOMAIN iter : Bounded(i) /\ IterResume(i)

SpecFilter == FilterInit /\ [][FilterNext]_vars

\* SpecFail: Contexts, an Enumerator and its generators when the native
\* calls that acquire the registry reference, scan and hand out the list
\* head may fail
FailInit == Start(CtxIds, {1}, 1..MaxGenerators, {1, 2})

FailNext ==
    \/ \E c \in CtxIds : Context__init__(c)
    \/ \E c \in CtxIds : Context__init__raising(c)
    \/ \E c \in CtxIds : DropContext(c)
    \/ \E c \in CtxIds : Context__del__(c)
    \/ \E c \in CtxIds : sys_path(c)
    \/ \E c \in CtxIds : device_path(c)
    \/ \E c \in CtxIds : run_path(c)
    \/ \E c \in CtxIds : log_priority(c)
    \/ \E c \in CtxIds : Enumerator__init__(1, c)
    \/ \E c \in CtxIds : list_devices(c, 1, {}, <<>>)
    \/ DropEnumerator(1)
    \/ Enumerator__del__(1)
    \/ \E i \in DOMAIN iter : Enumerator__iter__(1, i)
    \/ \E i \in DOMAIN iter : IterStart(i)
    \/ \E i \in DOMAIN iter, at \in {"scan", "list_entry"}, n \in 0..2 :
           IterStartFailed(i, at, n)
    \/ \E i \in DOMAIN iter : Bounded(i) /\ IterResume(i)
    \/ \E i \in DOMAIN iter : IterClose(i)

SpecFail == FailInit /\ [][FailNext]_vars

\* SpecShare: the Enumerators list_devices makes from one Context, their
\* filters and their iterations over a registry holding every device
ShareKwargs ==
    {{},
     {<<"subsystem", U("block")>>},
     {<<"tag", None>>, <<"DEVTYPE", U("disk")>>}}

ShareInit == Start({1}, EnumIds, 1..MaxGenerators, DeviceIds)

ShareNext ==
    \/ Context__init__(1)
    \/ \E e \in DOMAIN enum, kw \in ShareKwargs :
           \E order \in Orders(Keys(kw) \ Recognized) :
               Adds(kw) <= MaxFilters /\ list_devices(1, e, kw, order)
    \/ \E e \in DOMAIN enum, v \in {B("usb")} :
           Room(e, 1, MaxFilters) /\ match_subsystem(e, v)
    \/ \E e \in DOMAIN enum : Room(e, 1, MaxFilters) /\ match_is_initialized(e)
    \/ \E e \in DOMAIN enum, i \in DOMAIN iter : Enumerator__iter__(e, i)
    \/ \E i \in DOMAIN iter : IterStart(i)
    \/ \E i \in DOMAIN iter : Bounded(i) /\ IterResume(i)

SpecShare == ShareInit /\ [][ShareNext]_vars

(* ------------------------------------------------------------------ *)
(* Properties                                                          *)
(* ------------------------------------------------------------------ *)
\* the caller has fetched, or tried to fetch, an element from the generator
Started(i) ==
    \/ iter[i].state = "suspended"
    \/ iter[i].state = "finished"
       /\ (iter[i].end # "closed" \/ iter[i].yielded # <<>>)

\* the text a filter argument stands for
TextOf(value) ==
    IF value.type = "bool"
    THEN (IF value.v = "True" THEN "1" ELSE "0")
    ELSE value.v

\* the device satisfies the predicate a filter method was called with
Satisfies(d, call) ==
    CASE call.op = "match_subsystem" -> Subsystem(d) = TextOf(call.args[1])
      [] call.op = "match_sys_name" -> SysName(d) = TextOf(call.args[1])
      [] call.op = "match_property" ->
             Property(d, TextOf(call.args[1])) = TextOf(call.args[2])
      [] call.op = "match_attribute" ->
             Attribute(d, TextOf(call.args[1])) = TextOf(call.args[2])
      [] call.op = "match_tag" -> TextOf(call.args[1]) \in Tags(d)
      [] call.op = "match_is_initialized" -> IsInitialized(d)
      [] OTHER -> TextOf(call.args[1]) \in SubtreeOf(d)

\* the devices of reg that, for each kind of predicate among calls, satisfy
\* at least one predicate of that kind
Selected(calls, reg) ==
    {d \in reg :
        \A n \in DOMAIN calls :
            \E m \in DOMAIN calls :
                calls[m].op = calls[n].op /\ Satisfies(d, calls[m])}

Range(seq) == {seq[n] : n \in DOMAIN seq}

IsPrefix(a, b) == Len(a) <= Len(b) /\ \A n \in DOMAIN a : a[n] = b[n]

\* C1: constructing an Enumerator and adding filters scans nothing, and
\* every iteration that was started made one scan and one list-head
\* retrieval: the scans made on an Enumerator are as many as the iterations
\* started on it, and so are the list-head retrievals.
C1_OneScanPerIteration ==
    \A e \in DOMAIN enum :
        /\ enum[e].scans =
               Cardinality({i \in DOMAIN iter : iter[i].enum = e /\ Started(i)})
        /\ enum[e].heads = enum[e].scans

\* two iterations were started, after a filter was added, on an Enumerator
\* that has made two scans
C1_Witness ==
    /\ enum[1].calls # <<>>
    /\ enum[1].scans = 2
    /\ \A i \in DOMAIN iter : Started(i) /\ iter[i].scanCalls # <<>>

\* what the generator's scan found: the devices the registry held when the
\* scan ran that the filters added until then select, in list order
Snapshot(i) == ListOf(Selected(iter[i].scanCalls, iter[i].scanReg))

\* C2 as stated: what an iteration yields are the devices of the registry as
\* it was when the caller requested the iterator.
C2_AsOfRequest ==
    \A i \in DOMAIN iter :
        Started(i) /\ ~iter[i].freed =>
            /\ Range(iter[i].yielded)
                   \subseteq Selected(iter[i].scanCalls, iter[i].reqReg)
            /\ iter[i].end = "exhausted" =>
                   Range(iter[i].yielded)
                       = Selected(iter[i].scanCalls, iter[i].reqReg)

\* C2, amended: the scan runs when the first element is fetched, so the
\* result list an iteration retrieves holds the devices of the registry as
\* it was at that fetch, neither as at construction, nor as at the request
\* of the iterator, nor as it became later; what the iteration yields from
\* that list are its entries in order, all of them once it is exhausted.
C2_AsOfFirstFetch ==
    \A i \in DOMAIN iter :
        Started(i) =>
            /\ Current(i) => enum[iter[i].enum].list = Snapshot(i)
            /\ ~iter[i].freed =>
                   /\ IsPrefix(iter[i].yielded, Snapshot(i))
                   /\ iter[i].end = "exhausted" => iter[i].yielded = Snapshot(i)

\* an exhausted iteration of an Enumerator built before the registry
\* changed, whose scan saw a registry that differs from the one at the
\* request and from the present one
C2_Witness ==
    \E i \in DOMAIN iter :
        /\ iter[i].end = "exhausted"
        /\ ~iter[i].freed
        /\ iter[i].scanReg # iter[i].reqReg
        /\ iter[i].scanReg # registry
        /\ Range(iter[i].yielded) # Selected(iter[i].scanCalls, iter[i].reqReg)
        /\ iter[i].yielded = Snapshot(i)

\* C3: what an exhausted iteration has yielded are exactly the devices of
\* the scanned registry that, for each kind of predicate the match_* calls
\* made until the scan added, satisfy at least one predicate of that kind.
C3_OrWithinAndAcross ==
    \A i \in DOMAIN iter :
        iter[i].end = "exhausted" /\ ~iter[i].freed =>
            /\ Range(iter[i].yielded)
                   = Selected(iter[i].scanCalls, iter[i].scanReg)
            /\ Len(iter[i].yielded) = Cardinality(Range(iter[i].yielded))

\* subsystem 'block' with properties ID_TYPE='disk' and DEVTYPE='disk'
\* yields the one block device that has either property, not the block
\* device that has neither and not the usb device that has ID_TYPE='disk'
C3_Witness ==
    \E i \in DOMAIN iter :
        /\ iter[i].end = "exhausted"
        /\ {c.op : c \in Range(iter[i].scanCalls)}
               = {"match_subsystem", "match_property"}
        /\ \E n \in DOMAIN iter[i].scanCalls :
               iter[i].scanCalls[n].args = <<U("block")>>
        /\ \E n, m \in DOMAIN iter[i].scanCalls :
               /\ iter[i].scanCalls[n].args[1].v = "ID_TYPE"
               /\ iter[i].scanCalls[m].args[1].v = "DEVTYPE"
        /\ iter[i].scanReg = DeviceIds
        /\ iter[i].yielded = <<1>>

\* the kind of predicate each filter method adds
KindOf(op) ==
    CASE op = "match_subsystem" -> "subsystem"
      [] op = "match_sys_name" -> "sys_name"
      [] op = "match_property" -> "property"
      [] op = "match_attribute" -> "attribute"
      [] op = "match_tag" -> "tag"
      [] op = "match_is_initialized" -> "is_initialized"
      [] OTHER -> "parent"

FilterMethods ==
    {"match_subsystem", "match_sys_name", "match_property", "match_attribute",
     "match_tag", "match_is_initialized", "match_parent"}

\* C4: no step removes, replaces or reorders a predicate of a filter set,
\* and a call of one of the seven filter methods appends one predicate of the
\* method's kind at the end and returns the Enumerator it was called on.
C4_AppendOnly ==
    [][\A e \in DOMAIN enum :
          enum[e].state = "alive" =>
              /\ IsPrefix(enum[e].filters, enum'[e].filters)
              /\ last'.op \in FilterMethods /\ last'.self = e =>
                     /\ Len(enum'[e].filters) = Len(enum[e].filters) + 1
                     /\ enum'[e].filters[Len(enum'[e].filters)].kind
                            = KindOf(last'.op)
                     /\ last'.ret = Obj("Enumerator", e)]_vars

\* an Enumerator with three predicates, two of them parent predicates, has
\* been iterated to the end and then given its last predicate
C4_Witness ==
    /\ Len(enum[1].filters) = 3
    /\ Cardinality({n \in 1..3 : enum[1].filters[n].kind = "parent"}) = 2
    /\ iter[1].end = "exhausted"
    /\ Len(iter[1].scanCalls) = 2
    /\ last.op = "match_parent"

\* an object that owns a native handle treats it properly: it acquires at
\* most one, never releases more than it acquired, releases only when it is
\* torn down, and has released what it acquired once it is torn down
OwnsProperly(o) ==
    /\ o.acquired \in {0, 1}
    /\ o.handle <=> o.acquired = 1
    /\ o.released <= o.acquired
    /\ o.released > 0 => o.state = "deleted"
    /\ o.state = "deleted" => o.released = o.acquired

\* C5: every native handle a Context or an Enumerator acquired is released
\* exactly once, at the teardown of its owner: nothing is released that was
\* not acquired, nothing is released twice, nothing is released before the
\* teardown, and nothing acquired is left unreleased after it.
C5_ReleasedExactlyOnce ==
    /\ \A c \in DOMAIN ctx : OwnsProperly(ctx[c])
    /\ \A e \in DOMAIN enum : OwnsProperly(enum[e])

\* an Enumerator whose construction failed and an Enumerator whose iteration
\* was abandoned after a device are torn down, and so is the Context
C5_Witness ==
    \E failed, left \in DOMAIN enum :
        /\ enum[failed].state = "deleted" /\ enum[failed].acquired = 0
        /\ enum[left].state = "deleted" /\ enum[left].released = 1
        /\ \E i \in DOMAIN iter :
               /\ iter[i].enum = left
               /\ iter[i].end = "closed"
               /\ iter[i].yielded # <<>>
        /\ ctx[enum[left].udev].state = "deleted"
        /\ ctx[enum[left].udev].released = 1

\* C6: the teardown of an Enumerator releases its own enumeration handle
\* and touches no Context and no other Enumerator; a Context the caller
\* still holds has its registry reference, released zero times, however
\* many of its Enumerators were torn down.
C6_EnumeratorReleasesOnlyItself ==
    /\ [](\A c \in DOMAIN ctx :
              ctx[c].state = "alive" /\ ctx[c].ref =>
                  ctx[c].handle /\ ctx[c].acquired = 1 /\ ctx[c].released = 0)
    /\ [][\A e \in DOMAIN enum :
              enum[e].state = "alive" /\ enum'[e].state = "deleted" =>
                  /\ enum'[e].released = enum[e].released + 1
                  /\ ctx' = ctx
                  /\ \A o \in DOMAIN enum \ {e} : enum'[o] = enum[o]]_vars

\* two Enumerators of one Context are torn down, the Context is still held
C6_Witness ==
    \E c \in DOMAIN ctx :
        /\ ctx[c].state = "alive" /\ ctx[c].ref
        /\ ctx[c].released = 0
        /\ \A e \in DOMAIN enum :
               /\ enum[e].state = "deleted"
               /\ enum[e].udev = c
               /\ enum[e].released = 1

\* C7: while an Enumerator is alive, the Context its native enumeration
\* object was made from is alive and its registry handle is not released.
C7_ContextOutlivesEnumerators ==
    \A e \in DOMAIN enum :
        enum[e].state = "alive" =>
            /\ enum[e].udev \in DOMAIN ctx
            /\ ctx[enum[e].udev].state = "alive"
            /\ ctx[enum[e].udev].handle
            /\ ctx[enum[e].udev].released = 0

\* the caller dropped the Context first: an Enumerator of it is alive, held
\* by nothing but a suspended generator, another one is torn down already
C7_Witness ==
    \E e, o \in DOMAIN enum :
        /\ enum[e].state = "alive" /\ ~enum[e].ref
        /\ \E i \in DOMAIN iter :
               iter[i].state = "suspended" /\ iter[i].enum = e
        /\ ~ctx[enum[e].udev].ref
        /\ ctx[enum[e].udev].state = "alive"
        /\ enum[o].state = "deleted" /\ enum[o].udev = enum[e].udev

\* C8: match() without keyword arguments leaves the filter set of the
\* Enumerator as it was and returns the Enumerator it was called on, so a
\* scan made after it finds what a scan made before it would have found:
\* for an Enumerator no filter was applied to, every device of the registry.
C8_MatchNothingIsNoop ==
    [][\A e \in DOMAIN enum :
          match(e, {}, <<>>) =>
              /\ enum'[e].filters = enum[e].filters
              /\ enum' = enum
              /\ last'.ret = Obj("Enumerator", e)
              /\ scan_devices(enum'[e], registry).list
                     = scan_devices(enum[e], registry).list
              /\ enum[e].calls = <<>> =>
                     scan_devices(enum'[e], registry).list = ListOf(registry)]_vars

\* match() has just returned on an Enumerator no filter was applied to
C8_Witness ==
    /\ last = Call("match", 1, Obj("Enumerator", 1))
    /\ enum[1].state = "alive"
    /\ enum[1].calls = <<>>
    /\ enum[1].filters = <<>>

\* the predicate of its own kind a recognized keyword stands for
OwnPred(kwargs, key) == Pred(key, "", TextOf(Get(kwargs, key)))

PropertyPreds(kwargs, order) ==
    [n \in 1..Len(order) |->
        Pred("property", order[n], TextOf(Get(kwargs, order[n])))]

\* what match(**kwargs) appends if every recognized keyword that is present
\* appends one predicate of its kind
PresentPreds(kwargs, order) ==
    LET one(key) == IF key \in Keys(kwargs)
                    THEN <<OwnPred(kwargs, key)>>
                    ELSE <<>>
    IN  one("subsystem") \o one("sys_name") \o one("tag") \o one("parent")
            \o PropertyPreds(kwargs, order)

\* what match(**kwargs) appends if a recognized keyword appends one
\* predicate of its kind when it is present with a value other than None
GivenPreds(kwargs, order) ==
    LET one(key) == IF key \in Keys(kwargs) /\ Get(kwargs, key) # None
                    THEN <<OwnPred(kwargs, key)>>
                    ELSE <<>>
    IN  one("subsystem") \o one("sys_name") \o one("tag") \o one("parent")
            \o PropertyPreds(kwargs, order)

\* C9 as stated: match(**kw) appends, in the order subsystem, sys_name, tag,
\* parent, one predicate of its own kind for each recognized keyword that is
\* present, then one property predicate per remaining keyword, and nothing
\* for an absent keyword.
C9_PresentKeywordsAppend ==
    [][\A e \in DOMAIN enum, kw \in Kwargs :
          \A order \in Orders(Keys(kw) \ Recognized) :
              match(e, kw, order) =>
                  enum'[e].filters = enum[e].filters \o PresentPreds(kw, order)]_vars

\* C9, amended: match(**kw) appends, in the order subsystem, sys_name, tag,
\* parent, one predicate of its own kind for each recognized keyword that is
\* present with a value other than None, then one property predicate per
\* remaining keyword, with the keyword as key and the text form of its value
\* (None included) as value; an absent keyword and a recognized keyword
\* given as None append nothing. It returns the Enumerator it was called on.
C9_GivenKeywordsAppend ==
    [][\A e \in DOMAIN enum, kw \in Kwargs :
          \A order \in Orders(Keys(kw) \ Recognized) :
              match(e, kw, order) =>
                  /\ enum'[e].filters
                         = enum[e].filters \o GivenPreds(kw, order)
                  /\ last'.ret = Obj("Enumerator", e)]_vars

\* match(parent=None, ID_BUS=None) has added one property predicate, the
\* value being the text 'None', and no parent predicate
C9_Witness ==
    /\ last = Call("match", 1, Obj("Enumerator", 1))
    /\ enum[1].filters = <<Pred("property", "ID_BUS", "None")>>

\* C10: Enumerator(x), x not being a Context, raises TypeError and changes
\* nothing else: the object acquires no native handle, no Context, no other
\* Enumerator and no generator changes, and no step taken on the failed
\* object afterwards, its teardown included, releases anything.
C10_FailedConstruction ==
    [][\A e \in DOMAIN enum :
          /\ Enumerator__init__(e, NotAContext) =>
                 /\ last' = Call("Enumerator", e, Raise("TypeError"))
                 /\ ~enum'[e].handle
                 /\ enum'[e].acquired = 0
                 /\ enum'[e].state = "failed"
                 /\ ctx' = ctx
                 /\ iter' = iter
                 /\ registry' = registry
                 /\ \A o \in DOMAIN enum \ {e} : enum'[o] = enum[o]
          /\ enum[e].state = "failed" =>
                 /\ enum'[e].state \in {"failed", "deleted"}
                 /\ enum'[e].acquired = 0
                 /\ enum'[e].released = 0]_vars

\* the object of a failed construction is torn down while an Enumerator
\* built before it is alive
C10_Witness ==
    \E e, o \in DOMAIN enum :
        /\ o < e
        /\ enum[e].state = "deleted" /\ ~enum[e].handle
        /\ enum[e].released = 0
        /\ enum[o].state = "alive" /\ enum[o].handle
        /\ ctx[enum[o].udev].state = "alive"

\* next(generator) was just called on generator i
Fetched(i) == last'.op = "next" /\ last'.self = i

\* C11: when the resolver fails for the entry a step of an iteration
\* reaches, that step raises the failure to the caller: the entry is the one
\* after the last yielded (not skipped), the resolver was called once for it
\* (not retried), nothing is yielded, the iteration is over for good (no
\* later entry is yielded), and an iteration started afterwards makes a scan
\* of its own and walks the list of that scan.
C11_ResolverFailurePropagates ==
    [][\A i \in DOMAIN iter :
          /\ Fetched(i) /\ ~iter'[i].freed =>
                 LET p == iter[i].pos + 1
                     list == iter'[i].entries
                 IN  p \in DOMAIN list /\ ~from_sys_path(registry, list[p]) =>
                         /\ iter'[i].state = "finished"
                         /\ iter'[i].end = "raised"
                         /\ last'.ret = Raise("DeviceNotFound")
                         /\ iter'[i].yielded = iter[i].yielded
                         /\ iter'[i].pos = p
                         /\ iter'[i].resolved = iter[i].resolved + 1
          /\ iter[i].state = "finished" => iter'[i] = iter[i]
          /\ Fetched(i) /\ iter[i].state = "created" =>
                 LET e == iter[i].enum
                 IN  /\ enum'[e].scans = enum[e].scans + 1
                     /\ enum'[e].list
                            = ListOf(Selected(enum[e].calls, registry))
                     /\ iter'[i].entries = enum'[e].list
                     /\ iter'[i].scan = enum'[e].scans]_vars

\* an iteration yielded a device and then ended by a resolver failure for
\* the next entry; an iteration started after it scanned again and was
\* exhausted over a list without that entry
C11_Witness ==
    \E i, j \in DOMAIN iter :
        /\ iter[i].end = "raised" /\ ~iter[i].freed
        /\ Len(iter[i].yielded) = 1
        /\ iter[i].pos = 2
        /\ iter[j].scan = iter[i].scan + 1
        /\ iter[j].end = "exhausted"
        /\ iter[j].yielded = iter[j].entries
        /\ iter[j].entries # <<>>
        /\ iter[i].entries[2] \notin Range(iter[j].entries)

ContextCalls ==
    {"sys_path", "device_path", "run_path", "log_priority", "list_devices"}

C14_ReiterationRepeats ==
    /\ [](\A i, j \in DOMAIN iter :
              /\ i # j
              /\ Started(i) /\ Started(j)
              /\ iter[i].enum = iter[j].enum
              /\ iter[i].scanReg = iter[j].scanReg
              /\ iter[i].scanCalls = iter[j].scanCalls
              => /\ iter[i].scan # iter[j].scan
                 /\ iter[i].entries = iter[j].entries
                 /\ iter[i].end = "exhausted" /\ ~iter[i].freed =>
                        iter[i].yielded = iter[j].entries)
    /\ [][\A i \in DOMAIN iter :
              iter'[i] # iter[i] /\ iter[i].state # "unborn" =>
                  LET e == iter[i].enum
                  IN  /\ enum'[e].filters = enum[e].filters
                      /\ enum'[e].calls = enum[e].calls
                      /\ enum'[e].context = enum[e].context
                      /\ enum'[e].udev = enum[e].udev
                      /\ ctx' = ctx
                      /\ iter[i].state = "created" /\ Fetched(i) =>
                             /\ enum'[e].scans = enum[e].scans + 1
                             /\ iter'[i].pos <= 1
                             /\ Len(iter'[i].yielded) <= 1
                             /\ IsPrefix(iter'[i].yielded, iter'[i].entries)]_vars

\* with the registry as it was, an iteration was abandoned after its first
\* device, and a second iteration of the Enumerator, exhausted, yielded the
\* two devices from the first one on
C14_Witness ==
    \E i, j \in DOMAIN iter :
        /\ regChanges = 0
        /\ iter[i].end = "closed" /\ iter[i].yielded = <<1>>
        /\ iter[j].enum = iter[i].enum
        /\ iter[j].scan = iter[i].scan + 1
        /\ iter[j].end = "exhausted" /\ ~iter[j].freed
        /\ iter[j].yielded = <<1, 2>>

\* C15: an iteration yields the entries of its result list in the order of
\* the list, the i-th device yielded being the one of the i-th entry, none
\* skipped, repeated or moved; when the walk reaches the end of a list of n
\* entries it has yielded n devices and ends by StopIteration, no error.
C15_YieldsListInOrder ==
    /\ [](\A i \in DOMAIN iter :
              ~iter[i].freed =>
                  /\ IsPrefix(iter[i].yielded, iter[i].entries)
                  /\ iter[i].state = "suspended" =>
                         iter[i].pos = Len(iter[i].yielded)
                  /\ iter[i].end = "exhausted" =>
                         /\ iter[i].yielded = iter[i].entries
                         /\ Len(iter[i].yielded) = Len(iter[i].entries))
    /\ [][\A i \in DOMAIN iter :
              /\ Fetched(i)
              /\ ~iter'[i].freed
              /\ Len(iter[i].yielded) = Len(iter'[i].entries)
              => /\ iter'[i].end = "exhausted"
                 /\ last'.ret = Raise("StopIteration")]_vars

\* an iteration over a list of three entries yielded three devices in list
\* order and ended
C15_Witness ==
    \E i \in DOMAIN iter :
        /\ iter[i].entries = <<1, 2, 3>>
        /\ iter[i].yielded = <<1, 2, 3>>
        /\ iter[i].end = "exhausted"
        /\ last = Call("next", i, Raise("StopIteration"))

\* C16: the resolver is called once for each request that reaches an entry
\* of the list and for no entry beyond it: an iteration that was asked k
\* times and has not met the end of the list called the resolver k times,
\* the request that meets the end of the list calls it for nothing, and an
\* iteration abandoned after k devices called it k times, however long the
\* list is.
C16_ResolvesOnDemand ==
    \A i \in DOMAIN iter :
        ~iter[i].freed =>
            /\ iter[i].resolved
                   = Len(iter[i].yielded) + (IF iter[i].end = "raised" THEN 1 ELSE 0)
            /\ iter[i].requested
                   = iter[i].resolved + (IF iter[i].end = "exhausted" THEN 1 ELSE 0)
            /\ iter[i].resolved <= Len(iter[i].entries)
            /\ iter[i].resolved = iter[i].pos

\* an iteration over a list of two entries was abandoned after its first
\* device: the resolver was called once
C16_Witness ==
    \E i \in DOMAIN iter :
        /\ iter[i].end = "closed"
        /\ Len(iter[i].entries) = 2
        /\ Len(iter[i].yielded) = 1
        /\ iter[i].requested = 1
        /\ iter[i].resolved = 1

\* C17 as stated: no iteration reads or advances from a list entry of a scan
\* that a later scan of its Enumerator has superseded, also when a second
\* iteration is started while the first is suspended.
C17_NoSupersededEntry ==
    \A i \in DOMAIN iter : ~iter[i].freed

\* what the code does keep: a step of an iteration whose scan is still the
\* latest one of its Enumerator touches entries of the current list only
C17_CurrentScanIsSafe ==
    [][\A i \in DOMAIN iter :
          Fetched(i) /\ iter[i].state = "suspended" /\ Current(i) =>
              /\ ~iter'[i].freed
              /\ iter'[i].entries = enum[iter[i].enum].list]_vars

\* the first of two interleaved iterations was resumed after the second
\* one's scan and handed out a device from an entry of the replaced list
C17_Witness ==
    \E i, j \in DOMAIN iter :
        /\ iter[i].freed
        /\ iter[i].enum = iter[j].enum
        /\ iter[j].scan > iter[i].scan
        /\ iter[i].state = "suspended"
        /\ Len(iter[i].yielded) = 2
        /\ last.op = "next" /\ last.self = i

\* C18: while an iteration is suspended, its Enumerator is alive with its
\* enumeration handle unreleased and the Context of that Enumerator is
\* alive with its registry handle unreleased, whatever references the
\* caller dropped; an Enumerator whose handle was released has no generator
\* left that has not finished or been discarded.
C18_SuspendedIterationKeepsHandles ==
    /\ \A i \in DOMAIN iter :
           iter[i].state = "suspended" =>
               LET e == iter[i].enum
                   c == enum[e].udev
               IN  /\ enum[e].state = "alive"
                   /\ enum[e].handle /\ enum[e].released = 0
                   /\ ctx[c].state = "alive"
                   /\ ctx[c].handle /\ ctx[c].released = 0
    /\ \A e \in DOMAIN enum :
           enum[e].released > 0 =>
               \A i \in DOMAIN iter :
                   iter[i].enum = e => iter[i].state = "finished"

\* as in iterating Context().list_devices() directly: the one Enumerator
\* and every Context are held by nothing but a generator that has just
\* yielded a device
C18_Witness ==
    \E i \in DOMAIN iter :
        /\ iter[i].state = "suspended"
        /\ last.op = "next" /\ last.self = i
        /\ ~enum[iter[i].enum].ref
        /\ \A c \in DOMAIN ctx : ~ctx[c].ref
        /\ \A o \in DOMAIN enum \ {iter[i].enum} : enum[o].state = "unborn"

\* C19: list_devices(**kw) makes a new Enumerator that is alive and not yet
\* scanned, has acquired an enumeration handle of its own, is bound to the
\* Context it was called on, and carries the predicates match(**kw) adds to
\* an Enumerator without filters, and it changes no other Enumerator; a
\* filter method called on one Enumerator, and a step of an iteration of
\* one Enumerator with the scan it makes, change no other Enumerator.
C19_EnumeratorsAreIndependent ==
    [][/\ \A c \in DOMAIN ctx, e \in DOMAIN enum, kw \in ShareKwargs :
             \A order \in Orders(Keys(kw) \ Recognized) :
                 list_devices(c, e, kw, order) =>
                     /\ enum[e].state = "unborn"
                     /\ last'.ret = Obj("Enumerator", e)
                     /\ enum'[e].state = "alive"
                     /\ enum'[e].handle /\ enum'[e].acquired = 1
                     /\ enum'[e].released = 0
                     /\ enum'[e].context = c /\ enum'[e].udev = c
                     /\ enum'[e].scans = 0 /\ enum'[e].list = <<>>
                     /\ enum'[e].filters = GivenPreds(kw, order)
                     /\ enum'[e].filters
                            = do_match(EnumeratorInit(c), kw, order).filters
                     /\ ctx' = ctx
                     /\ \A o \in DOMAIN enum \ {e} : enum'[o] = enum[o]
       /\ \A e \in DOMAIN enum :
             last'.op \in FilterMethods \cup {"match"} /\ last'.self = e =>
                 \A o \in DOMAIN enum \ {e} : enum'[o] = enum[o]
       /\ \A i \in DOMAIN iter :
             Fetched(i) =>
                 \A o \in DOMAIN enum \ {iter[i].enum} : enum'[o] = enum[o]]_vars

\* two Enumerators of one Context carry different filters, each was
\* iterated to the end, and each yielded what its own filters select
C19_Witness ==
    /\ enum[1].udev = enum[2].udev
    /\ enum[1].filters = <<Pred("subsystem", "", "block")>>
    /\ enum[2].filters = <<Pred("subsystem", "", "usb")>>
    /\ enum[1].list = <<1, 2>>
    /\ enum[2].list = <<3>>
    /\ \A i \in DOMAIN iter : iter[i].end = "exhausted"
    /\ \E i \in DOMAIN iter : iter[i].yielded = <<1, 2>>
    /\ \E i \in DOMAIN iter : iter[i].yielded = <<3>>

====
